---- MODULE Spec2Model ----
(***************************************************************************)
(* Model of app.py: the rolling anomaly detector (process_city_data), the  *)
(* sequential and thread-pool dispatchers, the seasonal aggregation and    *)
(* the blocking / asyncio temperature fetchers.                            *)
(*                                                                         *)
(* Floating point values are modelled as exact reals of the form           *)
(*     num/den + k * sqrt(rad[1]/rad[2])                                   *)
(* or NaN, so that comparisons against mean +- 2*std are decided exactly.  *)
(***************************************************************************)
EXTENDS Integers, Sequences, FiniteSets, TLC

VARIABLES data, nonnumeric, seq, par, stats, fetch

vars == <<data, nonnumeric, seq, par, stats, fetch>>

(***************************************************************************)
(* Bounds of the model.                                                    *)
(***************************************************************************)
\* longest single-city series drawn for the detector
MaxLen == 40
\* number of cities of a multi-city dataset
MaxCities == 2
\* rows of a dataset given to seasonal_statistics
MaxRows == 3
\* cities of a fetch run
MaxFetch == 3

(***************************************************************************)
(* Exact arithmetic standing for float64.                                  *)
(***************************************************************************)
NaN == [nan |-> TRUE]

Rat(n, d) == [nan |-> FALSE, num |-> n, den |-> d, k |-> 0, rad |-> <<0, 1>>]

Sqrt(n, d) == [nan |-> FALSE, num |-> 0, den |-> 1, k |-> 1, rad |-> <<n, d>>]

Scale(c, x) ==
    IF x.nan THEN NaN ELSE [x EXCEPT !.num = c * @, !.k = c * @]

\* x + y, where at most one of the two carries a square root
Add(x, y) ==
    IF x.nan \/ y.nan THEN NaN
    ELSE [nan |-> FALSE,
          num |-> x.num * y.den + y.num * x.den,
          den |-> x.den * y.den,
          k   |-> x.k + y.k,
          rad |-> IF x.k # 0 THEN x.rad ELSE y.rad]

Sub(x, y) == Add(x, Scale(-1, y))

RECURSIVE GCD(_, _)
GCD(a, b) == IF b = 0 THEN a ELSE GCD(b, a % b)

Sgn(n) == IF n > 0 THEN 1 ELSE IF n < 0 THEN -1 ELSE 0

\* sign of num/den + k*sqrt(rad), den > 0
Sign(z) ==
    LET a  == z.num
        vn == z.rad[1]
        vd == z.rad[2]
        g  == GCD(z.den * z.den, vd)
        l  == a * a * (vd \div g)
        r  == z.k * z.k * vn * ((z.den * z.den) \div g)
    IN  IF z.k = 0 \/ vn = 0 THEN Sgn(a)
        ELSE IF a = 0 THEN Sgn(z.k)
        ELSE IF Sgn(a) = Sgn(z.k) THEN Sgn(a)
        ELSE IF l > r THEN Sgn(a)
        ELSE IF l < r THEN Sgn(z.k)
        ELSE 0

GtOrEqual(x, y) == IF x.nan \/ y.nan THEN FALSE ELSE Sign(Sub(x, y)) >= 0

\* IEEE comparisons: anything compared with NaN is False
Gt(x, y) == IF x.nan \/ y.nan THEN FALSE ELSE Sign(Sub(x, y)) > 0

Lt(x, y) == IF x.nan \/ y.nan THEN FALSE ELSE Sign(Sub(x, y)) < 0

(***************************************************************************)
(* process_city_data: the columns it computes.                             *)
(***************************************************************************)
window == 30

RECURSIVE SumRange(_, _, _)
SumRange(s, lo, hi) == IF lo > hi THEN 0 ELSE s[hi] + SumRange(s, lo, hi - 1)

RECURSIVE SumSqRange(_, _, _)
SumSqRange(s, lo, hi) ==
    IF lo > hi THEN 0 ELSE s[hi] * s[hi] + SumSqRange(s, lo, hi - 1)

WindowStartShort(i) == i - window + 2

\* first record of the trailing window that ends at record i (1-based)
WindowStart(i) == i - window + 1

\* Series.rolling(window=30).mean(): NaN until the window is full
rolling_mean(temperature) ==
    [i \in 1..Len(temperature) |->
        IF WindowStart(i) < 1 THEN NaN
        ELSE Rat(SumRange(temperature, WindowStart(i), i), window)]

\* sample variance denominator n*(n-1) (ddof = 1)
VarDen(n) == n * (n - 1)

\* Series.rolling(window=30).std(): sample standard deviation
rolling_std(temperature) ==
    [i \in 1..Len(temperature) |->
        IF WindowStart(i) < 1 THEN NaN
        ELSE LET S == SumRange(temperature, WindowStart(i), i)
                 Q == SumSqRange(temperature, WindowStart(i), i)
             IN  Sqrt(window * Q - S * S, VarDen(window))]

upper_bound(mean, std) ==
    [i \in 1..Len(mean) |-> Add(mean[i], Scale(2, std[i]))]

lower_bound(mean, std) ==
    [i \in 1..Len(mean) |-> Sub(mean[i], Scale(2, std[i]))]

IsAnomaly(t, upper, lower) == Gt(Rat(t, 1), upper) \/ Lt(Rat(t, 1), lower)

anomaly(temperature, upper, lower) ==
    [i \in 1..Len(temperature) |-> IsAnomaly(temperature[i], upper[i], lower[i])]

\* df[name] = col : adds the column to the frame object itself
SetCol(df, name, col) == (name :> col) @@ df

\* the statement of process_city_data at `line`, applied to the frame df
ExecLine(df, line) ==
    CASE line = 18 -> SetCol(df, "rolling_mean", rolling_mean(df.temperature))
      [] line = 19 -> SetCol(df, "rolling_std", rolling_std(df.temperature))
      [] line = 20 -> SetCol(df, "upper_bound",
                             upper_bound(df.rolling_mean, df.rolling_std))
      [] line = 21 -> SetCol(df, "lower_bound",
                             lower_bound(df.rolling_mean, df.rolling_std))
      [] line = 22 -> SetCol(df, "anomaly",
                             anomaly(df.temperature, df.upper_bound, df.lower_bound))

RECURSIVE RunLines(_, _)
RunLines(df, line) ==
    IF line > 22 THEN df ELSE RunLines(ExecLine(df, line), line + 1)

\* the whole body, lines 18-22, on the frame it is given
process_city_data(city_data) == RunLines(city_data, 18)

(***************************************************************************)
(* Datasets: the DataFrame read from the uploaded CSV, as its rows in file *)
(* order.                                                                  *)
(***************************************************************************)
CityNames == <<"Berlin", "Cairo", "Dubai", "Moscow">>

Seasons == {"winter", "spring", "summer", "autumn"}

SpikeTemps == {0, 100}

\* constant 20, except record p ("spike") or every record from p on
\* ("step"), which hold v; p = 0 leaves the series constant
Series(len, shape, p, v) ==
    [i \in 1..len |->
        IF p > 0 /\ ((shape = "spike" /\ i = p) \/ (shape = "step" /\ i >= p))
        THEN v ELSE 20]

SingleCitySeries ==
    {Series(len, "spike", 0, 20) : len \in 0..MaxLen}
    \cup {Series(len, sh, p, v) :
            len \in 1..MaxLen, sh \in {"spike", "step"}, p \in 1..MaxLen,
            v \in SpikeTemps}

\* the series a city of a multi-city dataset may have
SmallSeries ==
    {Series(2, "spike", 0, 20),
     Series(window, "spike", 0, 20),
     Series(window + 1, "spike", window + 1, 100)}

Row(ts, c, t) == [timestamp |-> ts, city |-> c, season |-> "winter", temperature |-> t]

\* rows of record j of every city that has one, cities in the order cs
RECURSIVE RowsAt(_, _, _, _)
RowsAt(series, cs, j, ts) ==
    IF cs = <<>> THEN <<>>
    ELSE IF j <= Len(series[Head(cs)])
         THEN <<Row(ts, Head(cs), series[Head(cs)][j])>>
              \o RowsAt(series, Tail(cs), j, ts + 1)
         ELSE RowsAt(series, Tail(cs), j, ts)

\* the cities' series interleaved by time
RECURSIVE Interleave(_, _, _, _)
Interleave(series, cs, j, ts) ==
    LET here == RowsAt(series, cs, j, ts)
    IN  IF here = <<>> THEN <<>>
        ELSE here \o Interleave(series, cs, j + 1, ts + Len(here))

CitySeqs == {SubSeq(CityNames, a, b) : a \in 1..MaxCities, b \in 1..MaxCities}

DataSets ==
    {Interleave([c \in {CityNames[1]} |-> s], <<CityNames[1]>>, 1, 1) :
        s \in SingleCitySeries}
    \cup UNION {{Interleave(f, cs, 1, 1) :
                    f \in [{cs[k] : k \in 1..Len(cs)} -> SmallSeries]} :
                cs \in CitySeqs}

CitiesOf(rows) == {rows[k].city : k \in 1..Len(rows)}

(***************************************************************************)
(* data.groupby('city'): one frame per city present, keys ascending, rows  *)
(* in their original order.                                                *)
(***************************************************************************)
Column(rows, name) == [k \in 1..Len(rows) |-> rows[k][name]]

Frame(rows) ==
    [timestamp   |-> Column(rows, "timestamp"),
     city        |-> Column(rows, "city"),
     season      |-> Column(rows, "season"),
     temperature |-> Column(rows, "temperature")]

RowsOfCity(rows, c) == SelectSeq(rows, LAMBDA r : r.city = c)

RECURSIVE GroupKeys(_, _)
GroupKeys(rows, k) ==
    IF k > Len(CityNames) THEN <<>>
    ELSE (IF CityNames[k] \in CitiesOf(rows) THEN <<CityNames[k]>> ELSE <<>>)
         \o GroupKeys(rows, k + 1)

groupby(rows) ==
    LET keys == GroupKeys(rows, 1)
    IN  [g \in 1..Len(keys) |-> Frame(RowsOfCity(rows, keys[g]))]

\* the rolling computation rejects a temperature column that is not numeric
Raises(df) == df.city[1] \in nonnumeric

RECURSIVE ConcatCol(_, _, _)
ConcatCol(frames, name, g) ==
    IF g > Len(frames) THEN <<>>
    ELSE frames[g][name] \o ConcatCol(frames, name, g + 1)

\* pd.concat(frames) of frames that have the same columns
concat(frames) ==
    [name \in DOMAIN frames[1] |-> ConcatCol(frames, name, 1)]

Deref(heap, refs) == [k \in 1..Len(refs) |-> heap[refs[k]]]

(***************************************************************************)
(* analyze_without_parallelism                                             *)
(***************************************************************************)
NoFrame == [none |-> TRUE]

SeqIdle ==
    [pc |-> "idle", groups |-> <<>>, i |-> 0, processed_data |-> <<>>,
     result |-> NoFrame]

ParIdle ==
    [pc |-> "idle", grouped_data |-> <<>>, future |-> <<>>, line |-> <<>>,
     returned |-> <<>>, next |-> 0, processed_data |-> <<>>, result |-> NoFrame]

StatsIdle == [pc |-> "idle"]

FetchIdle == [pc |-> "idle"]

\* line 35: the groupby iterator is created
SeqStart ==
    /\ seq.pc = "idle"
    /\ seq' = [seq EXCEPT !.pc = "loop", !.groups = groupby(data), !.i = 1]
    /\ UNCHANGED <<data, nonnumeric, par, stats, fetch>>

\* lines 35-36: one iteration; an exception of process_city_data leaves the loop
SeqIter ==
    /\ seq.pc = "loop"
    /\ seq.i <= Len(seq.groups)
    /\ IF Raises(seq.groups[seq.i])
       THEN seq' = [seq EXCEPT !.pc = "raised"]
       ELSE seq' = [seq EXCEPT
                      !.groups[seq.i] = process_city_data(@),
                      !.processed_data = Append(@, seq.i),
                      !.i = @ + 1]
    /\ UNCHANGED <<data, nonnumeric, par, stats, fetch>>

\* line 37: pd.concat raises ValueError on an empty list
SeqConcat ==
    /\ seq.pc = "loop"
    /\ seq.i > Len(seq.groups)
    /\ IF seq.processed_data = <<>>
       THEN seq' = [seq EXCEPT !.pc = "raised"]
       ELSE seq' = [seq EXCEPT
                      !.pc = "returned",
                      !.result = concat(Deref(seq.groups, seq.processed_data))]
    /\ UNCHANGED <<data, nonnumeric, par, stats, fetch>>

SeqDone == seq.pc \in {"returned", "raised"}

InitAnalysis ==
    /\ data \in DataSets
    /\ nonnumeric \in SUBSET CitiesOf(data)
    /\ seq = SeqIdle
    /\ par = ParIdle
    /\ stats = StatsIdle
    /\ fetch = FetchIdle

(***************************************************************************)
(* analyze_with_parallelism                                                *)
(***************************************************************************)
\* ThreadPoolExecutor(): threads of the pool
max_workers == 2

Futures == 1..Len(par.future)

Running == {f \in Futures : par.future[f] = "running"}

\* lines 27-29: the groups are materialised and executor.map submits one
\* work item per group, in order
ParSubmit ==
    /\ SeqDone
    /\ par.pc = "idle"
    /\ LET gs == groupby(data)
       IN  par' = [par EXCEPT
                     !.pc = "map",
                     !.grouped_data = gs,
                     !.future = [g \in 1..Len(gs) |-> "pending"],
                     !.line = [g \in 1..Len(gs) |-> 18],
                     !.returned = [g \in 1..Len(gs) |-> 0],
                     !.next = 1]
    /\ UNCHANGED <<data, nonnumeric, seq, stats, fetch>>

\* a free thread of the pool takes the oldest queued work item
WorkerStart(f) ==
    /\ par.future[f] = "pending"
    /\ \A e \in Futures : e < f => par.future[e] # "pending"
    /\ Cardinality(Running) < max_workers
    /\ par' = [par EXCEPT !.future[f] = "running"]
    /\ UNCHANGED <<data, nonnumeric, seq, stats, fetch>>

TaskArgLast(f) == Len(par.grouped_data)

\* executor.map(process_city_data, grouped_data): work item f is applied to
\* the f-th group
TaskArg(f) == f

\* a worker executes the next statement of process_city_data on its group;
\* line 23 returns the frame it was given, an exception is kept in the future
WorkerStep(f) ==
    /\ par.future[f] = "running"
    /\ IF par.line[f] = 18 /\ Raises(par.grouped_data[TaskArg(f)])
       THEN par' = [par EXCEPT !.future[f] = "raised"]
       ELSE IF par.line[f] = 23
       THEN par' = [par EXCEPT
                      !.future[f] = "finished",
                      !.returned[f] = TaskArg(f)]
       ELSE par' = [par EXCEPT
                      !.grouped_data[TaskArg(f)] = ExecLine(@, par.line[f]),
                      !.line[f] = @ + 1]
    /\ UNCHANGED <<data, nonnumeric, seq, stats, fetch>>

\* future.cancel() of every future the iterator has not yielded yet
CancelAfter(future, n) ==
    [f \in 1..Len(future) |->
        IF f > n /\ future[f] = "pending" THEN "cancelled" ELSE future[f]]

CollectSwallow ==
    /\ par.pc = "map"
    /\ par.next <= Len(par.future)
    /\ par.future[par.next] \in {"finished", "raised"}
    /\ par' = [par EXCEPT
                 !.processed_data =
                     IF par.future[par.next] = "finished"
                     THEN Append(@, par.returned[par.next]) ELSE @,
                 !.next = @ + 1]
    /\ UNCHANGED <<data, nonnumeric, seq, stats, fetch>>

\* line 29, list(executor.map(...)): results are taken in submission order;
\* the first exception cancels the futures left and leaves the with block
Collect ==
    /\ par.pc = "map"
    /\ par.next <= Len(par.future)
    /\ par.future[par.next] \in {"finished", "raised"}
    /\ IF par.future[par.next] = "finished"
       THEN par' = [par EXCEPT
                      !.processed_data = Append(@, par.returned[par.next]),
                      !.next = @ + 1]
       ELSE par' = [par EXCEPT
                      !.pc = "exit_raising",
                      !.future = CancelAfter(@, par.next)]
    /\ UNCHANGED <<data, nonnumeric, seq, stats, fetch>>

CollectEnd ==
    /\ par.pc = "map"
    /\ par.next > Len(par.future)
    /\ par' = [par EXCEPT !.pc = "exit"]
    /\ UNCHANGED <<data, nonnumeric, seq, stats, fetch>>

\* executor.__exit__: shutdown(wait=True) joins the threads, which end once
\* no work item is queued or running; then the exception, if any, goes on
PoolExit ==
    /\ par.pc \in {"exit", "exit_raising"}
    /\ \A f \in Futures : par.future[f] \notin {"pending", "running"}
    /\ par' = [par EXCEPT !.pc = IF par.pc = "exit" THEN "concat" ELSE "raised"]
    /\ UNCHANGED <<data, nonnumeric, seq, stats, fetch>>

\* line 30
ParConcat ==
    /\ par.pc = "concat"
    /\ IF par.processed_data = <<>>
       THEN par' = [par EXCEPT !.pc = "raised"]
       ELSE par' = [par EXCEPT
                      !.pc = "returned",
                      !.result = concat(Deref(par.grouped_data, par.processed_data))]
    /\ UNCHANGED <<data, nonnumeric, seq, stats, fetch>>

ParDone == par.pc \in {"returned", "raised"}

NextAnalysis ==
    \/ SeqStart
    \/ SeqIter
    \/ SeqConcat
    \/ ParSubmit
    \/ \E f \in Futures : WorkerStart(f)
    \/ \E f \in Futures : WorkerStep(f)
    \/ Collect
    \/ CollectEnd
    \/ PoolExit
    \/ ParConcat

SpecAnalysis == InitAnalysis /\ [][NextAnalysis]_vars

(***************************************************************************)
(* Properties of the analysis.                                             *)
(***************************************************************************)
Has(df, col) == col \in DOMAIN df

\* every frame object of the two runs
Frames ==
    {seq.groups[g] : g \in 1..Len(seq.groups)}
    \cup {par.grouped_data[g] : g \in 1..Len(par.grouped_data)}

RowsOf(df) == [k \in 1..Len(df.city) |-> [col \in DOMAIN df |-> df[col][k]]]

PerCity(df, c) == SelectSeq(RowsOf(df), LAMBDA r : r.city = c)

AnnotatedCols ==
    {"timestamp", "city", "season", "temperature", "rolling_mean", "rolling_std",
     "upper_bound", "lower_bound", "anomaly"}

\* C1: once both runs have ended, the thread-pool run ended the way the
\* sequential run did, and when they returned, every city has the same
\* sequence of annotated records (all nine columns) in the two results,
\* whatever the interleaving of the workers was.
C1_SameContent ==
    (SeqDone /\ ParDone) =>
        /\ par.pc = seq.pc
        /\ par.pc = "returned" =>
            /\ DOMAIN par.result = AnnotatedCols
            /\ DOMAIN seq.result = AnnotatedCols
            /\ \A c \in CitiesOf(data) :
                /\ PerCity(par.result, c) = PerCity(seq.result, c)
                /\ Len(PerCity(par.result, c)) = Len(RowsOfCity(data, c))

\* both runs returned on a dataset of several cities with a flagged record
C1_Witness ==
    /\ seq.pc = "returned"
    /\ par.pc = "returned"
    /\ Cardinality(CitiesOf(data)) >= 2
    /\ \E k \in 1..Len(par.result.anomaly) : par.result.anomaly[k]

Failing == nonnumeric # {}

\* C5: when detection fails for some partition, a run that has ended has
\* raised and holds no result, in sequential and in thread-pool mode; the
\* pool run raises only once no worker is running, whichever work item
\* failed and whatever the others did.
C5_FailFast ==
    Failing =>
        /\ SeqDone => (seq.pc = "raised" /\ seq.result = NoFrame)
        /\ ParDone =>
            /\ par.pc = "raised"
            /\ par.result = NoFrame
            /\ \A f \in Futures : par.future[f] \notin {"pending", "running"}
        /\ par.pc \notin {"exit", "concat"}

\* the pool run raised although another work item had finished, and the
\* failing one was not the first
C5_Witness ==
    /\ par.pc = "raised"
    /\ \E f \in Futures : par.future[f] = "finished"
    /\ \E f \in Futures : f > 1 /\ par.future[f] = "raised"

\* C6: the first window-1 records of a city carry NaN as rolling_mean and
\* rolling_std and False as anomaly; so does every record of a city with
\* fewer than 30 records.
C6_NoFlagBeforeWindowFull ==
    \A df \in Frames : \A i \in 1..Len(df.temperature) :
        i < window =>
            /\ Has(df, "rolling_mean") => df.rolling_mean[i].nan
            /\ Has(df, "rolling_std") => df.rolling_std[i].nan
            /\ Has(df, "anomaly") => ~df.anomaly[i]

\* a fully annotated city of 29 records
C6_Witness ==
    \E df \in Frames : Has(df, "anomaly") /\ Len(df.temperature) = window - 1

RECURSIVE SumOver(_, _)
SumOver(f, S) ==
    IF S = {} THEN 0
    ELSE LET x == CHOOSE y \in S : TRUE IN f[x] + SumOver(f, S \ {x})

\* window sum S, window sum of squares Q, scaled deviation and variance
WinIdx(i) == {j \in 1..i : j + 29 >= i}

Dev(t, i) == 30 * t[i] - SumOver(t, WinIdx(i))

ScaledVar(t, i) ==
    30 * SumOver([j \in DOMAIN t |-> t[j] * t[j]], WinIdx(i))
        - SumOver(t, WinIdx(i)) * SumOver(t, WinIdx(i))

\* t[i] is outside mean +- 2*std of records i-29..i, std dividing by n-1:
\* |t - S/30| > 2*sqrt(V/(30*29))  iff  d # 0 and 29*d^2 > 120*V
Outside(t, i) == Dev(t, i) # 0 /\ 29 * Dev(t, i) * Dev(t, i) > 120 * ScaledVar(t, i)

SpikeScenario == Series(40, "spike", 36, 100)

\* C7: from the 30th record on, anomaly holds exactly when the temperature
\* is strictly outside mean +- 2*std of the 30 records ending with it
\* (rolling_mean = S/30, rolling_std = sqrt((30Q - S^2)/(30*29))); a record
\* whose window is constant is not flagged; in the 40-record series of 20
\* with 100 at 0-based index 35 exactly that record is flagged.
C7_AnomalyIffOutside ==
    \A df \in Frames : Has(df, "anomaly") =>
        /\ \A i \in 1..Len(df.temperature) : i >= 30 =>
            /\ df.anomaly[i] <=> Outside(df.temperature, i)
            /\ df.rolling_mean[i] = Rat(SumOver(df.temperature, WinIdx(i)), 30)
            /\ df.rolling_std[i] = Sqrt(ScaledVar(df.temperature, i), 30 * 29)
            /\ (\A j \in WinIdx(i) : df.temperature[j] = df.temperature[i])
                   => ~df.anomaly[i]
        /\ df.temperature = SpikeScenario =>
               df.anomaly = [i \in 1..40 |-> i = 36]

\* the spike scenario, fully annotated
C7_Witness ==
    \E df \in Frames : Has(df, "anomaly") /\ df.temperature = SpikeScenario

\* C8 (as claimed): a frame handed to process_city_data is, after the call,
\* what it was before it, and the frame returned is another object.
C8_InputUntouched ==
    \A k \in 1..Len(seq.processed_data) :
        /\ seq.groups[seq.processed_data[k]] = groupby(data)[seq.processed_data[k]]
        /\ seq.processed_data[k] \notin 1..Len(seq.groups)

(***************************************************************************)
(* seasonal_statistics                                                     *)
(***************************************************************************)
SeasonOrder == <<"autumn", "spring", "summer", "winter">>

StatTemps == {10, 20, 25}

StatRows ==
    [timestamp : {0}, city : {CityNames[1], CityNames[2]},
     season : {"summer", "winter"}, temperature : StatTemps]

StatDataSets == UNION {[1..n -> StatRows] : n \in 0..MaxRows}

\* a fraction in lowest terms, d > 0, n >= 0
Norm(n, d) == Rat(n \div GCD(n, d), d \div GCD(n, d))

GroupMeanFirst(ts) == Rat(ts[1], 1)

\* agg 'mean' of a group's temperatures
GroupMean(ts) == Norm(SumRange(ts, 1, Len(ts)), Len(ts))

\* agg 'std': sample standard deviation, NaN for a single observation
GroupStd(ts) ==
    LET n == Len(ts)
        S == SumRange(ts, 1, n)
        Q == SumSqRange(ts, 1, n)
        v == n * Q - S * S
        g == GCD(v, VarDen(n))
    IN  IF n < 2 THEN NaN ELSE Sqrt(v \div g, VarDen(n) \div g)

GroupTemps(rows, c, s) ==
    Column(SelectSeq(rows, LAMBDA r : r.city = c /\ r.season = s), "temperature")

\* the rows of the groups of city CityNames[ci], seasons from the si-th on
RECURSIVE StatsFrom(_, _, _)
StatsFrom(rows, ci, si) ==
    IF ci > Len(CityNames) THEN <<>>
    ELSE IF si > Len(SeasonOrder) THEN StatsFrom(rows, ci + 1, 1)
    ELSE LET ts == GroupTemps(rows, CityNames[ci], SeasonOrder[si])
         IN  (IF ts = <<>> THEN <<>>
              ELSE <<[city   |-> CityNames[ci],
                      season |-> SeasonOrder[si],
                      mean   |-> GroupMean(ts),
                      std    |-> GroupStd(ts)]>>)
             \o StatsFrom(rows, ci, si + 1)

\* groupby(['city','season'])['temperature'].agg(['mean','std']).reset_index():
\* one row per key observed, keys ascending
seasonal_statistics(rows) == StatsFrom(rows, 1, 1)

\* line 97
Aggregate ==
    /\ stats.pc = "idle"
    /\ stats' = [pc |-> "done", table |-> seasonal_statistics(data)]
    /\ UNCHANGED <<data, nonnumeric, seq, par, fetch>>

InitStats ==
    /\ data \in StatDataSets
    /\ nonnumeric = {}
    /\ seq = SeqIdle
    /\ par = ParIdle
    /\ stats = StatsIdle
    /\ fetch = FetchIdle

NextStats == Aggregate

SpecStats == InitStats /\ [][NextStats]_vars

Swap(rows, j) ==
    [k \in 1..Len(rows) |->
        IF k = j THEN rows[j + 1] ELSE IF k = j + 1 THEN rows[j] ELSE rows[k]]

GroupIdx(c, s) == {j \in 1..Len(data) : data[j].city = c /\ data[j].season = s}

TableIdx(c, s) ==
    {k \in 1..Len(stats.table) :
        stats.table[k].city = c /\ stats.table[k].season = s}

\* C9: the table has exactly one row for a (city, season) pair of the input
\* and none for a pair that is absent; the row's mean is the sum of the
\* group's temperatures over their number; exchanging two neighbouring input
\* rows (hence any reordering) leaves the table as it is; a group of one
\* record has a mean and NaN as std.
C9_OneRowPerGroup ==
    stats.pc = "done" =>
        /\ \A c \in {CityNames[k] : k \in 1..Len(CityNames)} : \A s \in Seasons :
            /\ Cardinality(TableIdx(c, s)) = IF GroupIdx(c, s) = {} THEN 0 ELSE 1
            /\ \A k \in TableIdx(c, s) :
                LET m == stats.table[k].mean
                    n == Cardinality(GroupIdx(c, s))
                IN  /\ ~m.nan
                    /\ m.k = 0
                    /\ m.den > 0
                    /\ m.num * n = m.den * SumOver(Column(data, "temperature"),
                                                   GroupIdx(c, s))
                    /\ n = 1 => stats.table[k].std.nan
        /\ Len(stats.table) =
               Cardinality({<<data[j].city, data[j].season>> : j \in 1..Len(data)})
        /\ \A j \in 1..(Len(data) - 1) :
               seasonal_statistics(Swap(data, j)) = stats.table

\* a table with a group of one record and a group of differing records
C9_Witness ==
    /\ stats.pc = "done"
    /\ Len(stats.table) >= 2
    /\ \E k \in 1..Len(stats.table) : stats.table[k].std.nan
    /\ \E k \in 1..Len(stats.table) :
           ~stats.table[k].std.nan /\ stats.table[k].std.rad[1] > 0

(***************************************************************************)
(* The weather service and the two fetchers.                               *)
(***************************************************************************)
\* what a GET for city q may come to: a response with a status and a JSON
\* body, or an exception raised by the HTTP client (no response)
Response(q, status) ==
    [kind   |-> "response",
     status |-> status,
     json   |-> IF status = 200
                THEN [name |-> q, main |-> [temp |-> 15]]
                ELSE [cod |-> status, message |-> q]]

TransportError == [kind |-> "exception"]

Outcomes(q) == {Response(q, 200), Response(q, 401), Response(q, 404), TransportError}

NoResponse == [kind |-> "none"]

ErrorResult(city, status) ==
    [error |-> <<"Error fetching data for ", city, ": ", status>>]

fetch_temperature_async_unchecked(city, response) == response.json

\* lines 47-50
fetch_temperature_async(city, response) ==
    IF response.status = 200 THEN response.json
    ELSE ErrorResult(city, response.status)

\* lines 61-64
fetch_temperature_sync(city, response) ==
    IF response.status = 200 THEN response.json
    ELSE ErrorResult(city, response.status)

FetchCities == {SubSeq(CityNames, 1, n) : n \in 0..MaxFetch}

N == Len(fetch.cities)

Tasks == 1..Len(fetch.task)

InitFetch ==
    /\ data = <<>>
    /\ nonnumeric = {}
    /\ seq = SeqIdle
    /\ par = ParIdle
    /\ stats = StatsIdle
    /\ \E cs \in FetchCities, m \in {"sync", "async"} :
        fetch = [pc |-> "idle", mode |-> m, cities |-> cs, i |-> 0,
                 session |-> "none", task |-> <<>>,
                 response |-> [k \in 1..Len(cs) |-> NoResponse],
                 result |-> <<>>, completed |-> <<>>, results |-> <<>>]

\* line 67: the list comprehension starts
SyncStart ==
    /\ fetch.pc = "idle"
    /\ fetch.mode = "sync"
    /\ fetch' = [fetch EXCEPT !.pc = "loop", !.i = 1]
    /\ UNCHANGED <<data, nonnumeric, seq, par, stats>>

\* lines 59-64 for the next city: requests.get blocks until the response is
\* there, or raises; nothing catches the exception
SyncFetch ==
    /\ fetch.pc = "loop"
    /\ fetch.i <= N
    /\ \E r \in Outcomes(fetch.cities[fetch.i]) :
        IF r.kind = "exception"
        THEN fetch' = [fetch EXCEPT !.pc = "raised", !.response[fetch.i] = r]
        ELSE fetch' = [fetch EXCEPT
                         !.response[fetch.i] = r,
                         !.results = Append(@, fetch_temperature_sync(
                                                   fetch.cities[fetch.i], r)),
                         !.i = @ + 1]
    /\ UNCHANGED <<data, nonnumeric, seq, par, stats>>

\* line 68
SyncReturn ==
    /\ fetch.pc = "loop"
    /\ fetch.i > N
    /\ fetch' = [fetch EXCEPT !.pc = "returned"]
    /\ UNCHANGED <<data, nonnumeric, seq, par, stats>>

\* lines 53-55: the session is opened, one coroutine per city is made and
\* gather schedules them all as tasks, then the caller is suspended
AsyncStart ==
    /\ fetch.pc = "idle"
    /\ fetch.mode = "async"
    /\ fetch' = [fetch EXCEPT
                   !.pc = "gathering",
                   !.session = "open",
                   !.task = [k \in 1..N |-> "scheduled"],
                   !.result = [k \in 1..N |-> NoResponse]]
    /\ UNCHANGED <<data, nonnumeric, seq, par, stats>>

\* lines 45-46: the event loop runs the scheduled tasks in order; each sends
\* its request and is suspended at session.get
TaskIssue(t) ==
    /\ fetch.pc = "gathering"
    /\ fetch.task[t] = "scheduled"
    /\ \A e \in Tasks : e < t => fetch.task[e] # "scheduled"
    /\ fetch' = [fetch EXCEPT !.task[t] = "awaiting"]
    /\ UNCHANGED <<data, nonnumeric, seq, par, stats>>

\* lines 46-50: a suspended task is resumed with its response, or with the
\* exception of the HTTP client, once the loop has run the tasks scheduled
\* before it polls the network
TaskRespond(t) ==
    /\ fetch.pc = "gathering"
    /\ fetch.task[t] = "awaiting"
    /\ \A e \in Tasks : fetch.task[e] # "scheduled"
    /\ \E r \in Outcomes(fetch.cities[t]) :
        IF r.kind = "exception"
        THEN fetch' = [fetch EXCEPT
                         !.task[t] = "failed",
                         !.response[t] = r,
                         !.completed = Append(@, t)]
        ELSE fetch' = [fetch EXCEPT
                         !.task[t] = "done",
                         !.response[t] = r,
                         !.result[t] = fetch_temperature_async(fetch.cities[t], r),
                         !.completed = Append(@, t)]
    /\ UNCHANGED <<data, nonnumeric, seq, par, stats>>

GatherCompletionOrder ==
    [k \in 1..Len(fetch.completed) |-> fetch.result[fetch.completed[k]]]

\* asyncio.gather(*tasks): the results in the order of the awaitables
GatherResults == [k \in 1..N |-> fetch.result[k]]

\* lines 55-56: gather wakes the caller with the list of results when every
\* task is done, or with the first exception as soon as one task has failed;
\* either way the async with block is left and the session closed
GatherWake ==
    /\ fetch.pc = "gathering"
    /\ IF \E t \in Tasks : fetch.task[t] = "failed"
       THEN fetch' = [fetch EXCEPT !.pc = "raised", !.session = "closed"]
       ELSE /\ \A t \in Tasks : fetch.task[t] = "done"
            /\ fetch' = [fetch EXCEPT
                           !.pc = "returned",
                           !.session = "closed",
                           !.results = GatherResults]
    /\ UNCHANGED <<data, nonnumeric, seq, par, stats>>

\* line 128: asyncio.run cancels the tasks still pending when its main
\* coroutine has ended, and raises its exception
RunCleanup ==
    /\ fetch.mode = "async"
    /\ fetch.pc = "raised"
    /\ \E t \in Tasks : fetch.task[t] = "awaiting"
    /\ fetch' = [fetch EXCEPT
                   !.task = [t \in Tasks |->
                                IF fetch.task[t] = "awaiting" THEN "cancelled"
                                ELSE fetch.task[t]]]
    /\ UNCHANGED <<data, nonnumeric, seq, par, stats>>

NextFetch ==
    \/ SyncStart
    \/ SyncFetch
    \/ SyncReturn
    \/ AsyncStart
    \/ \E t \in Tasks : TaskIssue(t)
    \/ \E t \in Tasks : TaskRespond(t)
    \/ GatherWake
    \/ RunCleanup

SpecFetch == InitFetch /\ [][NextFetch]_vars

(***************************************************************************)
(* Properties of the fetchers.                                             *)
(***************************************************************************)
IsError(r) == "error" \in DOMAIN r

IsTemperature(r) == "main" \in DOMAIN r /\ "temp" \in DOMAIN r.main

\* the city a result is about: named in the error text, or in the body
ResultCity(r) == IF IsError(r) THEN r.error[2] ELSE r.name

\* C2: a run whose requests were all answered does not raise, and when it
\* has returned, in either mode, it holds exactly one result per requested
\* city, in the cities' order: a temperature result and no error for status
\* 200, an error result naming the city and the status, and no temperature,
\* for any other status.
C2_OneResultPerCity ==
    /\ fetch.pc = "raised" =>
           \E k \in 1..N : fetch.response[k].kind = "exception"
    /\ fetch.pc = "returned" =>
        /\ Len(fetch.results) = N
        /\ \A k \in 1..N :
            LET r == fetch.results[k]
            IN  /\ fetch.response[k].kind = "response"
                /\ IF fetch.response[k].status = 200
                   THEN IsTemperature(r) /\ ~IsError(r)
                        /\ ResultCity(r) = fetch.cities[k]
                   ELSE IsError(r) /\ ~IsTemperature(r)
                        /\ r = ErrorResult(fetch.cities[k], fetch.response[k].status)

\* an asyncio run returned with one city answered 200 and another not
C2_Witness ==
    /\ fetch.mode = "async"
    /\ fetch.pc = "returned"
    /\ \E k \in 1..N : fetch.response[k].status = 200
    /\ \E k \in 1..N : fetch.response[k].status # 200

\* C3 (as claimed): a request that raises instead of answering does not
\* abort the batch: no exception reaches the caller of either monitor
\* function, and the run returns one result per city, an error result for
\* the city whose request raised.
C3_TransportErrorAbsorbed ==
    /\ fetch.pc # "raised"
    /\ fetch.pc = "returned" =>
        /\ Len(fetch.results) = N
        /\ \A k \in 1..N :
               fetch.response[k].kind = "exception" => IsError(fetch.results[k])

\* the first half of C4: a scheduled task whose predecessors have been
\* started can send its request, whatever responses are outstanding
C4_IssuedWithoutWaiting ==
    \A t \in Tasks :
        (/\ fetch.pc = "gathering"
         /\ fetch.task[t] = "scheduled"
         /\ \A e \in Tasks : e < t => fetch.task[e] # "scheduled")
            => ENABLED TaskIssue(t)

\* C4 (as claimed): every request is sent without waiting for another
\* one's response, and the asyncio run ends, and its session is closed,
\* only when each of the N requests has completed or failed.
C4_AllAwaitedBeforeReturn ==
    /\ C4_IssuedWithoutWaiting
    /\ (fetch.mode = "async"
        /\ (fetch.session = "closed" \/ fetch.pc \in {"returned", "raised"}))
           => \A t \in Tasks : fetch.task[t] \in {"done", "failed"}

\* C10: the list monitor_with_async returns has, at place i, the result of
\* the request for the i-th city given, whatever order the responses came in.
C10_SubmissionOrder ==
    (fetch.mode = "async" /\ fetch.pc = "returned") =>
        /\ Len(fetch.results) = N
        /\ \A k \in 1..N :
            /\ ResultCity(fetch.results[k]) = fetch.cities[k]
            /\ IsError(fetch.results[k]) <=> fetch.response[k].status # 200

\* a returned asyncio run whose last city answered first
C10_Witness ==
    /\ fetch.mode = "async"
    /\ fetch.pc = "returned"
    /\ N >= 2
    /\ fetch.completed[1] = N
    /\ \E k \in 1..N : IsError(fetch.results[k])

====
